---- MODULE Spec2Model ----
(***************************************************************************)
(* The WebAuthn attestation-object decoder of slauth                       *)
(* (src/webauthn/proto/raw_message.rs): AttestationObject::from_base64,    *)
(* AttestationObject::from_bytes, AuthenticatorData::from_vec and          *)
(* CredentialPublicKey::from_value, as one sequential state machine whose  *)
(* program counter walks the statements of those four functions.           *)
(*                                                                         *)
(* Bytes are integers 0..255 and byte buffers are sequences of them.       *)
(* Numbers wider than 31 bits keep their width: the u32 sign_count is its  *)
(* two 16-bit halves, the i128 of serde_cbor::Value::Integer and the i64   *)
(* fields are a sign and a big-endian base-256 magnitude.                  *)
(***************************************************************************)
EXTENDS Integers, Sequences, FiniteSets, TLC

----------------------------------------------------------------------------
(* Bounds of the input families.                                           *)

\* largest declared credential-id length among the well-formed buffers
MaxCredLen == 2
\* number of distinct fill patterns used for the fixed header bytes
NumSeeds == 2
\* longest junk tail (in bytes) appended after the 37-byte header
MaxJunk == 17

----------------------------------------------------------------------------
(* Byte-sequence helpers.                                                  *)

RECURSIVE Concat(_)
Concat(ss) == IF ss = <<>> THEN <<>> ELSE Head(ss) \o Concat(Tail(ss))

Zeros(n) == [i \in 1..n |-> 0]

\* n bytes, reproducible and all different from 0 for small n
Fill(n, seed) == [i \in 1..n |-> (seed * 16 + i) % 256]

\* left-pad with zero bytes to 8 digits
Pad8(s) == [i \in 1..8 |-> IF i <= 8 - Len(s) THEN 0 ELSE s[i - (8 - Len(s))]]

\* the numeric value of a big-endian digit string when it fits in 16 bits, else -1
SmallNat(s) ==
    IF \E i \in 1..Len(s) : i <= Len(s) - 2 /\ s[i] # 0 THEN -1
    ELSE IF Len(s) = 0 THEN 0
    ELSE IF Len(s) = 1 THEN s[1]
    ELSE s[Len(s) - 1] * 256 + s[Len(s)]

----------------------------------------------------------------------------
(* serde_cbor::Value, the document model.                                  *)
(* Integer(i128) is [neg, mag]: the value mag when ~neg and -1-mag when    *)
(* neg, mag an 8-digit big-endian magnitude (the range CBOR can encode).   *)
(* Map(BTreeMap) is a sequence of <<key, value>> pairs with distinct keys. *)

VNull == [t |-> "Null"]
VBool(b) == [t |-> "Bool", b |-> b]
VInteger(neg, mag) == [t |-> "Integer", neg |-> neg, mag |-> mag]
VBytes(v) == [t |-> "Bytes", v |-> v]
VText(v) == [t |-> "Text", v |-> v]
VArray(a) == [t |-> "Array", a |-> a]
VMap(m) == [t |-> "Map", m |-> m]

\* Value::Integer(k) for a literal k with -256 <= k <= 255
IntLit(k) == IF k >= 0 THEN VInteger(FALSE, Pad8(<<k>>)) ELSE VInteger(TRUE, Pad8(<<-1 - k>>))

\* BTreeMap::insert: replaces the value of an equal key
BTreeInsert(m, k, v) ==
    IF \E i \in 1..Len(m) : m[i][1] = k
    THEN [i \in 1..Len(m) |-> IF m[i][1] = k THEN <<k, v>> ELSE m[i]]
    ELSE Append(m, <<k, v>>)

\* BTreeMap::get: [some, val]
BTreeGet(m, k) ==
    IF \E i \in 1..Len(m) : m[i][1] = k
    THEN [some |-> TRUE, val |-> m[CHOOSE i \in 1..Len(m) : m[i][1] = k][2]]
    ELSE [some |-> FALSE]

----------------------------------------------------------------------------
(* serde_cbor's reader, on the subset of CBOR the inputs use: definite     *)
(* length items of major types 0..5 and the simple values false, true,     *)
(* null, undefined.  Tags, floats and indefinite lengths set unsup; no     *)
(* input of the model contains them (see Supported).                       *)
(* The result is [ok, unsup, raw, next]: raw is the syntax tree, in which  *)
(* a map is still the list of its entries in stream order.                 *)

PFail == [ok |-> FALSE, unsup |-> FALSE]
PUnsup == [ok |-> FALSE, unsup |-> TRUE]
POk(raw, next) == [ok |-> TRUE, unsup |-> FALSE, raw |-> raw, next |-> next]

ArgLen(info) ==
    CASE info < 24 -> 0
      [] info = 24 -> 1
      [] info = 25 -> 2
      [] info = 26 -> 4
      [] info = 27 -> 8
      [] OTHER -> -1

RECURSIVE ParseItem(_, _), ParseItems(_, _, _, _)

\* n further items starting at p, collected in acc
ParseItems(b, p, n, acc) ==
    IF n = 0 THEN POk(acc, p)
    ELSE LET r == ParseItem(b, p)
         IN IF ~r.ok THEN r ELSE ParseItems(b, r.next, n - 1, Append(acc, r.raw))

ParseItem(b, p) ==
    IF p > Len(b) THEN PFail
    ELSE
    LET ib == b[p]
        major == ib \div 32
        info == ib % 32
        nArg == ArgLen(info)
    IN
    IF nArg = -1 THEN (IF info = 31 /\ major \in 2..5 THEN PUnsup ELSE PFail)
    ELSE IF p + nArg > Len(b) THEN PFail
    ELSE
    LET arg == IF nArg = 0 THEN <<info>> ELSE SubSeq(b, p + 1, p + nArg)
        q == p + 1 + nArg
        n == SmallNat(arg)
    IN
    CASE major = 0 -> POk(VInteger(FALSE, Pad8(arg)), q)
      [] major = 1 -> POk(VInteger(TRUE, Pad8(arg)), q)
      [] major = 2 ->
            IF n < 0 \/ q + n - 1 > Len(b) THEN PFail
            ELSE POk(VBytes(SubSeq(b, q, q + n - 1)), q + n)
      [] major = 3 ->
            IF n < 0 \/ q + n - 1 > Len(b) THEN PFail
            ELSE IF \E i \in q..(q + n - 1) : b[i] >= 128 THEN PUnsup
            ELSE POk(VText(SubSeq(b, q, q + n - 1)), q + n)
      [] major = 4 ->
            IF n < 0 \/ n > Len(b) THEN PFail
            ELSE LET r == ParseItems(b, q, n, <<>>)
                 IN IF ~r.ok THEN r ELSE POk(VArray(r.raw), r.next)
      [] major = 5 ->
            IF n < 0 \/ n > Len(b) THEN PFail
            ELSE LET r == ParseItems(b, q, 2 * n, <<>>)
                 IN IF ~r.ok THEN r
                    ELSE POk([t |-> "RawMap",
                              e |-> [i \in 1..n |-> <<r.raw[2 * i - 1], r.raw[2 * i]>>]],
                             r.next)
      [] major = 6 -> PUnsup
      [] OTHER ->
            CASE info = 20 -> POk(VBool(FALSE), q)
              [] info = 21 -> POk(VBool(TRUE), q)
              [] info \in {22, 23} -> POk(VNull, q)
              [] info \in {25, 26, 27} -> PUnsup
              [] OTHER -> PFail

\* Deserializer::end: one item, and nothing after it
ParseDocument(b) ==
    LET r == ParseItem(b, 1)
    IN IF r.ok /\ r.next # Len(b) + 1 THEN PFail ELSE r

\* Value's Deserialize impl: visit_map inserts the entries into a BTreeMap in
\* stream order, visit_seq collects a Vec
RECURSIVE ToValue(_), ToValues(_, _, _), InsertAll(_, _, _)

ToValues(raws, i, acc) ==
    IF i > Len(raws) THEN acc ELSE ToValues(raws, i + 1, Append(acc, ToValue(raws[i])))

InsertAll(entries, i, acc) ==
    IF i > Len(entries) THEN acc
    ELSE InsertAll(entries, i + 1,
                   BTreeInsert(acc, ToValue(entries[i][1]), ToValue(entries[i][2])))

ToValue(raw) ==
    CASE raw.t = "RawMap" -> VMap(InsertAll(raw.e, 1, <<>>))
      [] raw.t = "Array" -> VArray(ToValues(raw.a, 1, <<>>))
      [] OTHER -> raw

\* serde_cbor::from_slice::<serde_cbor::Value>
from_slice_Value(b) ==
    LET r == ParseDocument(b)
    IN IF r.ok THEN [ok |-> TRUE, unsup |-> FALSE, val |-> ToValue(r.raw)]
       ELSE [ok |-> FALSE, unsup |-> r.unsup]

\* serde's visitor for Option<serde_cbor::Value>: null is None
OptionValue(present, raw) ==
    IF ~present \/ raw = VNull THEN [some |-> FALSE]
    ELSE [some |-> TRUE, val |-> ToValue(raw)]

----------------------------------------------------------------------------
(* Field names of the serde structs (rename_all = "camelCase"), as ASCII.  *)

K_authData == <<97, 117, 116, 104, 68, 97, 116, 97>>
K_fmt == <<102, 109, 116>>
K_attStmt == <<97, 116, 116, 83, 116, 109, 116>>
K_alg == <<97, 108, 103>>
K_sig == <<115, 105, 103>>
K_x5c == <<120, 53, 99>>
K_ecdaaKeyId == <<101, 99, 100, 97, 97, 75, 101, 121, 73, 100>>

\* the entries of a raw map whose key is the text `name`
FieldIdx(e, name) == {i \in 1..Len(e) : e[i][1] = VText(name)}
HasField(e, name) == FieldIdx(e, name) # {}
FieldRaw(e, name) == e[CHOOSE i \in FieldIdx(e, name) : TRUE][2]

\* a map key the derived field visitor is only modelled for when it is text
KeyUnsup(e) == \E i \in 1..Len(e) : e[i][1].t \in {"Integer", "Bytes"}
KeyBad(e) == \E i \in 1..Len(e) : e[i][1].t \notin {"Integer", "Bytes", "Text"}
Duplicate(e, names) == \E nm \in names : Cardinality(FieldIdx(e, nm)) > 1

SFail == [ok |-> FALSE, unsup |-> FALSE]
SUnsup == [ok |-> FALSE, unsup |-> TRUE]

\* #[derive(Deserialize)] for AttestationStatement: alg: i64, sig: bytes,
\* x5c and ecdaaKeyId optional documents
DeserializeAttestationStatement(raw) ==
    IF raw.t = "Array" THEN SUnsup
    ELSE IF raw.t # "RawMap" THEN SFail
    ELSE
    LET e == raw.e IN
    IF KeyBad(e) THEN SFail
    ELSE IF KeyUnsup(e) THEN SUnsup
    ELSE IF Duplicate(e, {K_alg, K_sig, K_x5c, K_ecdaaKeyId}) THEN SFail
    ELSE IF ~HasField(e, K_alg) \/ ~HasField(e, K_sig) THEN SFail
    ELSE
    LET alg == FieldRaw(e, K_alg)
        sig == FieldRaw(e, K_sig)
    IN
    IF alg.t # "Integer" THEN SFail
    ELSE IF alg.mag[1] >= 128 THEN SFail
    ELSE IF sig.t \in {"Text", "Array"} THEN SUnsup
    ELSE IF sig.t # "Bytes" THEN SFail
    ELSE [ok |-> TRUE, unsup |-> FALSE,
          val |-> [alg |-> [neg |-> alg.neg, mag |-> alg.mag],
                   sig |-> sig.v,
                   x5c |-> OptionValue(HasField(e, K_x5c),
                                       IF HasField(e, K_x5c) THEN FieldRaw(e, K_x5c) ELSE VNull),
                   ecdaa_key_id |-> OptionValue(HasField(e, K_ecdaaKeyId),
                                       IF HasField(e, K_ecdaaKeyId)
                                       THEN FieldRaw(e, K_ecdaaKeyId) ELSE VNull)]]

\* serde_cbor::from_slice::<RawAttestationObject>: auth_data is any document,
\* fmt a text string, att_stmt an AttestationStatement; unknown fields are
\* skipped, a missing or repeated field is an error
from_slice_RawAttestationObject(b) ==
    LET r == ParseDocument(b) IN
    IF ~r.ok THEN [ok |-> FALSE, unsup |-> r.unsup]
    ELSE IF r.raw.t = "Array" THEN SUnsup
    ELSE IF r.raw.t # "RawMap" THEN SFail
    ELSE
    LET e == r.raw.e IN
    IF KeyBad(e) THEN SFail
    ELSE IF KeyUnsup(e) THEN SUnsup
    ELSE IF Duplicate(e, {K_authData, K_fmt, K_attStmt}) THEN SFail
    ELSE IF ~HasField(e, K_authData) \/ ~HasField(e, K_fmt) \/ ~HasField(e, K_attStmt)
    THEN SFail
    ELSE
    LET fmt == FieldRaw(e, K_fmt)
        st == DeserializeAttestationStatement(FieldRaw(e, K_attStmt))
    IN
    IF fmt.t = "Bytes" THEN SUnsup
    ELSE IF fmt.t # "Text" THEN SFail
    ELSE IF ~st.ok THEN st
    ELSE [ok |-> TRUE, unsup |-> FALSE,
          val |-> [auth_data |-> ToValue(FieldRaw(e, K_authData)),
                   fmt |-> fmt.v,
                   att_stmt |-> st.val]]

----------------------------------------------------------------------------
(* base64::decode with the standard alphabet, on strings of ASCII codes.   *)
(* Strings whose padding is missing or misplaced set unsup; the inputs     *)
(* are either canonically padded or hold a symbol outside the alphabet or  *)
(* have a length no encoding has.                                          *)

Pad == 61

B64Val(c) ==
    CASE c >= 65 /\ c <= 90 -> c - 65
      [] c >= 97 /\ c <= 122 -> c - 71
      [] c >= 48 /\ c <= 57 -> c + 4
      [] c = 43 -> 62
      [] c = 47 -> 63
      [] OTHER -> -1

\* number of padding symbols that end s
RECURSIVE PadCount(_)
PadCount(s) == IF s # <<>> /\ s[Len(s)] = Pad THEN 1 + PadCount(SubSeq(s, 1, Len(s) - 1)) ELSE 0

RECURSIVE B64Groups(_, _)
B64Groups(v, i) ==
    IF i + 3 <= Len(v)
    THEN LET n == v[i] * 262144 + v[i + 1] * 4096 + v[i + 2] * 64 + v[i + 3]
         IN <<n \div 65536, (n \div 256) % 256, n % 256>> \o B64Groups(v, i + 4)
    ELSE IF i + 2 = Len(v)
    THEN <<v[i] * 4 + v[i + 1] \div 16, (v[i + 1] % 16) * 16 + v[i + 2] \div 4>>
    ELSE IF i + 1 = Len(v)
    THEN <<v[i] * 4 + v[i + 1] \div 16>>
    ELSE <<>>

base64_decode(s) ==
    LET k == PadCount(s)
        body == SubSeq(s, 1, Len(s) - k)
        n == Len(body)
    IN
    IF \E i \in 1..n : B64Val(body[i]) = -1 THEN [ok |-> FALSE, unsup |-> FALSE]
    ELSE IF n % 4 = 1 THEN [ok |-> FALSE, unsup |-> FALSE]
    ELSE IF (n + k) % 4 # 0 THEN [ok |-> FALSE, unsup |-> TRUE]
    ELSE IF n % 4 = 2 /\ B64Val(body[n]) % 16 # 0 THEN [ok |-> FALSE, unsup |-> FALSE]
    ELSE IF n % 4 = 3 /\ B64Val(body[n]) % 4 # 0 THEN [ok |-> FALSE, unsup |-> FALSE]
    ELSE [ok |-> TRUE, unsup |-> FALSE,
          val |-> B64Groups([i \in 1..n |-> B64Val(body[i])], 1)]

----------------------------------------------------------------------------
(* Encoders used to build the inputs: canonical CBOR and padded base64.    *)

EncHead(major, n) ==
    IF n < 24 THEN <<major * 32 + n>>
    ELSE IF n < 256 THEN <<major * 32 + 24, n>>
    ELSE <<major * 32 + 25, n \div 256, n % 256>>

RECURSIVE EncValue(_), EncEntries(_, _)

EncEntries(m, i) ==
    IF i > Len(m) THEN <<>>
    ELSE EncValue(m[i][1]) \o EncValue(m[i][2]) \o EncEntries(m, i + 1)

EncValue(v) ==
    CASE v.t = "Null" -> <<246>>
      [] v.t = "Bool" -> IF v.b THEN <<245>> ELSE <<244>>
      [] v.t = "Integer" ->
            LET major == IF v.neg THEN 1 ELSE 0
            IN IF SmallNat(v.mag) >= 0 THEN EncHead(major, SmallNat(v.mag))
               ELSE <<major * 32 + 27>> \o v.mag
      [] v.t = "Bytes" -> EncHead(2, Len(v.v)) \o v.v
      [] v.t = "Text" -> EncHead(3, Len(v.v)) \o v.v
      [] OTHER -> EncHead(5, Len(v.m)) \o EncEntries(v.m, 1)

B64Char(v) ==
    CASE v < 26 -> v + 65
      [] v < 52 -> v + 71
      [] v < 62 -> v - 4
      [] v = 62 -> 43
      [] OTHER -> 47

RECURSIVE base64_encode(_)
base64_encode(b) ==
    IF Len(b) = 0 THEN <<>>
    ELSE IF Len(b) = 1
    THEN <<B64Char(b[1] \div 4), B64Char((b[1] % 4) * 16), Pad, Pad>>
    ELSE IF Len(b) = 2
    THEN <<B64Char(b[1] \div 4), B64Char((b[1] % 4) * 16 + b[2] \div 16),
           B64Char((b[2] % 16) * 4), Pad>>
    ELSE <<B64Char(b[1] \div 4), B64Char((b[1] % 4) * 16 + b[2] \div 16),
           B64Char((b[2] % 16) * 4 + b[3] \div 64), B64Char(b[3] % 64)>>
         \o base64_encode(SubSeq(b, 4, Len(b)))

----------------------------------------------------------------------------
(* The Error enum of crate::webauthn::error, by the variants this file     *)
(* constructs or converts into with `?`.                                   *)

ErrOther(msg) == [variant |-> "Other", msg |-> msg]
ErrCbor == [variant |-> "CborError", msg |-> ""]
ErrIo == [variant |-> "IoError", msg |-> "UnexpectedEof"]
ErrBase64 == [variant |-> "Base64Error", msg |-> ""]
NoError == [variant |-> "", msg |-> ""]

\* the failure kinds of the error taxonomy, by error value
ErrorKind(e) ==
    CASE e.variant \in {"Base64Error", "CborError"} -> "EncodingError"
      [] e.variant = "IoError" -> "Truncation"
      [] e.variant = "Other" /\ e.msg = "Cannot proceed without auth data" -> "UnsupportedFormat"
      [] e.variant = "Other" -> "MissingField"
      [] OTHER -> "None"

\* the SEC1 compressed-point prefixes
ECDSA_Y_PREFIX_POSITIVTE == 2
ECDSA_Y_PREFIX_NEGATIVE == 3

----------------------------------------------------------------------------
(* std::io::Cursor<Vec<u8>> with byteorder's readers.  pos counts the      *)
(* bytes consumed; hi is one past the last buffer index the read touched.  *)

\* bytes::Buf::remaining
Remaining(d, p) == IF Len(d) > p THEN Len(d) - p ELSE 0

\* a read that trusts the caller's count and runs past the end of the buffer
ReadExact_Unchecked(d, p, n) ==
    [ok |-> TRUE, bytes |-> [i \in 1..n |-> IF p + i <= Len(d) THEN d[p + i] ELSE 0],
     pos |-> p + n, hi |-> p + n]

\* Read::read_exact of n bytes: UnexpectedEof unless n bytes remain
ReadExact(d, p, n) ==
    IF Remaining(d, p) < n THEN [ok |-> FALSE, hi |-> Len(d)]
    ELSE [ok |-> TRUE, bytes |-> SubSeq(d, p + 1, p + n), pos |-> p + n, hi |-> p + n]

\* the same four bytes read least significant first
U32_LittleEndian(b) == [hi |-> b[4] * 256 + b[3], lo |-> b[2] * 256 + b[1]]

\* ReadBytesExt::read_u32::<BigEndian>: the value hi * 2^16 + lo
U32BigEndian(b) == [hi |-> b[1] * 256 + b[2], lo |-> b[3] * 256 + b[4]]

\* the same two bytes read least significant first
U16_LittleEndian(b) == b[2] * 256 + b[1]

\* ReadBytesExt::read_u16::<BigEndian>
U16BigEndian(b) == b[1] * 256 + b[2]

\* the bytes the cursor has not consumed, instead of the whole buffer
IntoInner_Remainder(d, p) == SubSeq(d, p + 1, Len(d))

\* Cursor::into_inner: the buffer the cursor was built on
IntoInner(d, p) == d

\* the presence test with >= in place of >
AttestedPresent_AtLeast16(d, p) == Remaining(d, p) >= 16

\* line 60: the presence test of the attested-credential block
AttestedPresent(d, p) == Remaining(d, p) > 16

----------------------------------------------------------------------------
(* Helpers of CredentialPublicKey::from_value.                             *)

I64Zero == [neg |-> FALSE, mag |-> Zeros(8)]

\* `*i as i64` on an i128: the low 64 bits, reinterpreted as signed
AsI64(i) ==
    IF i.mag[1] >= 128
    THEN [neg |-> ~i.neg, mag |-> [j \in 1..8 |-> 255 - i.mag[j]]]
    ELSE [neg |-> i.neg, mag |-> i.mag]

\* map.get(&Value::Integer(k)).map(|val| match val { Integer(i) => *i as i64, _ => 0 })
IntegerField(m, k) ==
    LET g == BTreeGet(m, IntLit(k))
    IN IF ~g.some THEN [some |-> FALSE]
       ELSE [some |-> TRUE, val |-> IF g.val.t = "Integer" THEN AsI64(g.val) ELSE I64Zero]

\* array.copy_from_slice(&i[0..32]): the slice index panics when i is shorter
First32(i) ==
    IF Len(i) < 32 THEN [panic |-> TRUE] ELSE [panic |-> FALSE, array |-> SubSeq(i, 1, 32)]

\* the closure of lines 137..146 applied to map.get(-2): [panic, some, val]
XCoordinate(m) ==
    LET g == BTreeGet(m, IntLit(-2))
    IN IF ~g.some \/ g.val.t # "Bytes" THEN [panic |-> FALSE, some |-> FALSE]
       ELSE IF First32(g.val.v).panic THEN [panic |-> TRUE, some |-> FALSE]
       ELSE [panic |-> FALSE, some |-> TRUE, val |-> First32(g.val.v).array]

\* the closure of lines 149..162 applied to map.get(-3)
YCoordinate(m, xc) ==
    LET g == BTreeGet(m, IntLit(-3))
    IN IF ~g.some THEN [panic |-> FALSE, some |-> FALSE]
       ELSE IF g.val.t = "Bytes"
       THEN IF First32(g.val.v).panic THEN [panic |-> TRUE, some |-> FALSE]
            ELSE [panic |-> FALSE, some |-> TRUE,
                  val |-> [variant |-> "Uncompressed", x |-> xc, y |-> First32(g.val.v).array]]
       ELSE IF g.val.t = "Bool"
       THEN [panic |-> FALSE, some |-> TRUE,
             val |-> [variant |-> "Compressed", x |-> xc,
                      y |-> IF g.val.b THEN ECDSA_Y_PREFIX_NEGATIVE
                            ELSE ECDSA_Y_PREFIX_POSITIVTE]]
       ELSE [panic |-> FALSE, some |-> FALSE]

\* a missing byte string replaced by an empty buffer instead of an error
AuthDataBytes_DefaultEmpty(v) ==
    IF v.t = "Bytes" THEN [ok |-> TRUE, vec |-> v.v] ELSE [ok |-> TRUE, vec |-> <<>>]

\* line 190..193: the authData field must be a byte string
AuthDataBytes(v) ==
    IF v.t = "Bytes" THEN [ok |-> TRUE, vec |-> v.v] ELSE [ok |-> FALSE]

----------------------------------------------------------------------------
(* The inputs: documents for from_value, buffers for from_vec, envelopes   *)
(* for from_bytes and strings for from_base64.                             *)

None == [some |-> FALSE]
Some(v) == [some |-> TRUE, val |-> v]

Reverse(s) == [i \in 1..Len(s) |-> s[Len(s) + 1 - i]]

\* the COSE key map with the chosen values under 1, 3, -1, -2, -3 (None: no entry)
CoseDoc(c1, c3, cm1, cx, cy, rev) ==
    LET all == << <<IntLit(1), c1>>, <<IntLit(3), c3>>, <<IntLit(-1), cm1>>,
                  <<IntLit(-2), cx>>, <<IntLit(-3), cy>> >>
        present(e) == e[2].some
        kept == SelectSeq(all, present)
        es == [i \in 1..Len(kept) |-> <<kept[i][1], kept[i][2].val>>]
    IN VMap(IF rev THEN Reverse(es) ELSE es)

\* 2^64 - 7 and -2^63 - 1: integers CBOR encodes and i64 does not hold
BigUnsigned == VInteger(FALSE, <<255, 255, 255, 255, 255, 255, 255, 249>>)
BigNegative == VInteger(TRUE, <<128, 0, 0, 0, 0, 0, 0, 0>>)

\* lengths of the coordinate byte strings tried
MaxExtra == 1
CoordLens == {0} \cup (31..(32 + MaxExtra))

KtyChoices == {None, Some(IntLit(2)), Some(VText(<<97>>))}
AlgChoices == {None, Some(IntLit(-7)), Some(VBool(TRUE)), Some(BigUnsigned)}
CrvChoices == {None, Some(IntLit(1)), Some(BigNegative), Some(VNull)}
XChoices == {None, Some(IntLit(4))} \cup {Some(VBytes(Fill(n, 3))) : n \in CoordLens}
YChoices == {None, Some(IntLit(5)), Some(VNull), Some(VBool(TRUE)), Some(VBool(FALSE))}
                \cup {Some(VBytes(Fill(n, 5))) : n \in CoordLens}

ValueInputs ==
    {CoseDoc(c1, c3, cm1, cx, cy, rev) :
        c1 \in KtyChoices, c3 \in AlgChoices, cm1 \in CrvChoices,
        cx \in XChoices, cy \in YChoices, rev \in BOOLEAN}
    \cup {VNull, VBytes(<<1>>), IntLit(1)}

X32 == Some(VBytes(Fill(32, 3)))
Y32 == Some(VBytes(Fill(32, 5)))
DocUncompressed == CoseDoc(Some(IntLit(2)), Some(IntLit(-7)), Some(IntLit(1)), X32, Y32, FALSE)
DocCompressed(b) == CoseDoc(Some(IntLit(2)), Some(IntLit(-7)), Some(IntLit(1)), X32, Some(VBool(b)), b)
DocShortX == CoseDoc(Some(IntLit(2)), Some(IntLit(-7)), Some(IntLit(1)),
                     Some(VBytes(Fill(31, 3))), Y32, FALSE)
DocNoAlg == CoseDoc(Some(IntLit(2)), None, Some(IntLit(1)), X32, Y32, FALSE)
EmbeddedDocs == {DocUncompressed, DocCompressed(TRUE), DocCompressed(FALSE),
                 DocShortX, DocNoAlg, VNull}

\* rpIdHash, flags, signCount
Header(seed, fl, sc) == Fill(32, seed) \o <<fl>> \o sc
Headers ==
    {Header(seed, fl, sc) : seed \in 1..NumSeeds, fl \in {1, 65},
                            sc \in {<<0, 0, 0, 1>>, <<255, 254, 3, 128>>}}

Prefixes(b) == {SubSeq(b, 1, n) : n \in 0..Len(b)}

\* aaguid, credentialIdLength, credentialId, then the rest
Block(lenBytes, n, rest) == Fill(16, 9) \o lenBytes \o Fill(n, 11) \o rest

Tails ==
    {Fill(j, 13) : j \in 0..MaxJunk}
    \cup {Block(<<0, n>>, n, EncValue(d)) : n \in 0..MaxCredLen, d \in EmbeddedDocs}
    \cup Prefixes(Block(<<0, MaxCredLen>>, MaxCredLen, EncValue(DocCompressed(TRUE))))
    \cup {Block(<<1, 0>>, MaxCredLen, EncValue(DocCompressed(TRUE))),
          Block(<<0, 1>>, 1, EncValue(DocCompressed(TRUE)) \o <<0>>)}

VecInputs ==
    {h \o t : h \in Headers, t \in Tails}
    \cup UNION {Prefixes(h) : h \in Headers}

T_none == <<110, 111, 110, 101>>
T_packed == <<112, 97, 99, 107, 101, 100>>

Statement(extra) ==
    VMap(<< <<VText(K_alg), IntLit(-7)>>, <<VText(K_sig), VBytes(Fill(4, 7))>> >> \o extra)

Envelope(ad, fmt, stmt) ==
    VMap(<< <<VText(K_fmt), fmt>>, <<VText(K_attStmt), stmt>>, <<VText(K_authData), ad>> >>)

H1 == Header(1, 65, <<0, 0, 0, 1>>)

AuthDataChoices ==
    {VBytes(H1), VBytes(H1 \o Fill(16, 13)), VBytes(SubSeq(H1, 1, 20)),
     VBytes(H1 \o Block(<<0, 1>>, 1, EncValue(DocUncompressed))),
     VBytes(H1 \o Block(<<0, 0>>, 0, EncValue(DocCompressed(TRUE)))),
     VBytes(H1 \o Block(<<0, 1>>, 1, EncValue(DocShortX))),
     VBytes(H1 \o Block(<<0, 1>>, 1, EncValue(DocNoAlg))),
     VBytes(H1 \o Block(<<0, 9>>, 1, <<>>)),
     VBytes(H1 \o Block(<<0, 1>>, 1, <<255>>)),
     VNull, VBool(TRUE), IntLit(0), VText(T_none), VMap(<<>>)}

GoodEnvelopes ==
    {Envelope(ad, fmt, st) :
        ad \in AuthDataChoices,
        fmt \in {VText(T_none), VText(T_packed)},
        st \in {Statement(<<>>), Statement(<< <<VText(K_x5c), VBytes(<<1, 2>>)>> >>)}}

BadEnvelopes ==
    {Envelope(VBytes(H1), IntLit(1), Statement(<<>>)),
     Envelope(VBytes(H1), VText(T_none), VMap(<< <<VText(K_alg), IntLit(-7)>> >>)),
     Envelope(VBytes(H1), VText(T_none), VNull),
     VMap(<< <<VText(K_fmt), VText(T_none)>>, <<VText(K_attStmt), Statement(<<>>)>> >>),
     VMap(<< <<VText(K_fmt), VText(T_none)>>, <<VText(K_fmt), VText(T_none)>>,
             <<VText(K_attStmt), Statement(<<>>)>>, <<VText(K_authData), VBytes(H1)>> >>),
     VNull}

BytesInputs ==
    {EncValue(e) : e \in GoodEnvelopes \cup BadEnvelopes}
    \cup {SubSeq(EncValue(e), 1, Len(EncValue(e)) - 1) :
            e \in {Envelope(VBytes(H1), VText(T_none), Statement(<<>>))}}
    \cup {EncValue(e) \o <<0>> :
            e \in {Envelope(VBytes(H1), VText(T_none), Statement(<<>>))}}
    \cup {<<>>}

\* s with the symbol at position i replaced by c
Replace(s, i, c) == [j \in 1..Len(s) |-> IF j = i THEN c ELSE s[j]]

StringInputs ==
    {base64_encode(b) : b \in BytesInputs}
    \cup {Replace(base64_encode(b), i, 33) :
            b \in {EncValue(Envelope(VBytes(H1), VText(T_none), Statement(<<>>)))},
            i \in {1, 2, 40}}
    \cup {SubSeq(base64_encode(b), 1, 5) :
            b \in {EncValue(Envelope(VBytes(H1), VText(T_none), Statement(<<>>)))}}
    \cup {<<65, 66, Pad, Pad>>}

----------------------------------------------------------------------------
(* State.                                                                  *)

VARIABLES
    entry,                    \* the function the caller invoked
    pc,                       \* the statement about to run
    string,                   \* from_base64's argument
    raw_values,               \* from_bytes's argument
    raw_object,               \* from_bytes's `value`: the RawAttestationObject
    auth_data,                \* from_bytes's locals of line 195
    raw_auth_data,
    data,                     \* from_vec's argument, owned by the cursor
    pos,                      \* the cursor's position
    rp_id_hash,
    flags,
    sign_count,
    aaguid,
    length,
    credential_id,
    remaining,
    remaining_value,
    credential_public_key,
    attested_credential_data,
    value,                    \* from_value's argument
    map,
    key_type,
    alg,
    curve,
    x,
    coords,
    outcome,                  \* "running", "ok", "err", "panic" or "unsupported"
    error,                    \* the Err value returned
    result,                   \* the Ok value returned
    calls,                    \* the functions entered so far, in order
    touched                   \* one past the highest index of data a read touched

topVars == <<raw_values, raw_object, auth_data, raw_auth_data>>
hdrVars == <<rp_id_hash, flags, sign_count>>
blkVars == <<aaguid, length, credential_id, remaining, remaining_value,
             credential_public_key, attested_credential_data>>
keyVars == <<value, map, key_type, alg, curve, x, coords>>
endVars == <<outcome, error, result>>
vars == <<entry, pc, string, topVars, data, pos, hdrVars, blkVars, keyVars, endVars,
          calls, touched>>

NoResult == [kind |-> "none"]

Locals ==
    /\ raw_object = NoResult /\ auth_data = NoResult /\ raw_auth_data = <<>>
    /\ pos = 0 /\ rp_id_hash = <<>> /\ flags = 0 /\ sign_count = [hi |-> 0, lo |-> 0]
    /\ aaguid = <<>> /\ length = 0 /\ credential_id = <<>> /\ remaining = <<>>
    /\ remaining_value = VNull /\ credential_public_key = NoResult
    /\ attested_credential_data = None
    /\ map = <<>> /\ key_type = I64Zero /\ alg = I64Zero /\ curve = I64Zero
    /\ x = <<>> /\ coords = NoResult
    /\ outcome = "running" /\ error = NoError /\ result = NoResult
    /\ touched = 0

Init ==
    /\ Locals
    /\ \/ /\ entry = "from_base64" /\ pc = "from_base64" /\ calls = <<"from_base64">>
          /\ string \in StringInputs
          /\ raw_values = <<>> /\ data = <<>> /\ value = VNull
       \/ /\ entry = "from_bytes" /\ pc = "from_bytes" /\ calls = <<"from_bytes">>
          /\ raw_values \in BytesInputs
          /\ string = <<>> /\ data = <<>> /\ value = VNull
       \/ /\ entry = "from_vec" /\ pc = "rp_id_hash" /\ calls = <<"from_vec">>
          /\ data \in VecInputs
          /\ string = <<>> /\ raw_values = <<>> /\ value = VNull
       \/ /\ entry = "from_value" /\ pc = "map" /\ calls = <<"from_value">>
          /\ value \in ValueInputs
          /\ string = <<>> /\ raw_values = <<>> /\ data = <<>>

\* the call returns: every caller applies `?`, so an Err ends the entry call too
Finish(o, e, r) == pc' = "done" /\ outcome' = o /\ error' = e /\ result' = r
Fail(e) == Finish("err", e, NoResult)
Panic == Finish("panic", NoError, NoResult)
Unsupported == Finish("unsupported", NoError, NoResult)
Goto(l) == pc' = l /\ UNCHANGED endVars

----------------------------------------------------------------------------
(* AttestationObject::from_base64 and from_bytes.                          *)

\* line 183..184
FromBase64 ==
    /\ pc = "from_base64"
    /\ LET r == base64_decode(string) IN
       IF r.ok
       THEN /\ raw_values' = r.val
            /\ calls' = Append(calls, "from_bytes")
            /\ Goto("from_bytes")
       ELSE /\ IF r.unsup THEN Unsupported ELSE Fail(ErrBase64)
            /\ UNCHANGED <<raw_values, calls>>
    /\ UNCHANGED <<entry, string, raw_object, auth_data, raw_auth_data, data, pos,
                   hdrVars, blkVars, keyVars, touched>>

\* line 188
FromBytesDecode ==
    /\ pc = "from_bytes"
    /\ LET r == from_slice_RawAttestationObject(raw_values) IN
       IF r.ok
       THEN raw_object' = r.val /\ Goto("auth_data")
       ELSE /\ IF r.unsup THEN Unsupported ELSE Fail(ErrCbor)
            /\ UNCHANGED raw_object
    /\ UNCHANGED <<entry, string, raw_values, auth_data, raw_auth_data, data, pos,
                   hdrVars, blkVars, keyVars, calls, touched>>

\* line 190..195: the match on value.auth_data, then the call of from_vec
FromBytesAuthData ==
    /\ pc = "auth_data"
    /\ LET r == AuthDataBytes(raw_object.auth_data) IN
       IF r.ok
       THEN /\ data' = r.vec
            /\ calls' = Append(calls, "from_vec")
            /\ Goto("rp_id_hash")
       ELSE /\ Fail(ErrOther("Cannot proceed without auth data"))
            /\ UNCHANGED <<data, calls>>
    /\ UNCHANGED <<entry, string, topVars, pos, hdrVars, blkVars, keyVars, touched>>

\* line 197..202
FromBytesOk ==
    /\ pc = "from_bytes_ok"
    /\ Finish("ok", NoError,
              [kind |-> "AttestationObject",
               auth_data |-> auth_data,
               raw_auth_data |-> raw_auth_data,
               fmt |-> raw_object.fmt,
               att_stmt |-> raw_object.att_stmt])
    /\ UNCHANGED <<entry, string, topVars, data, pos, hdrVars, blkVars, keyVars,
                   calls, touched>>

----------------------------------------------------------------------------
(* AuthenticatorData::from_vec.                                            *)

Touch(r) == touched' = IF r.hi > touched THEN r.hi ELSE touched

\* line 53..54
FromVecRpIdHash ==
    /\ pc = "rp_id_hash"
    /\ LET r == ReadExact(data, pos, 32) IN
       /\ Touch(r)
       /\ IF r.ok
          THEN rp_id_hash' = r.bytes /\ pos' = r.pos /\ Goto("flags")
          ELSE Fail(ErrIo) /\ UNCHANGED <<rp_id_hash, pos>>
    /\ UNCHANGED <<entry, string, topVars, data, flags, sign_count, blkVars, keyVars, calls>>

\* line 56
FromVecFlags ==
    /\ pc = "flags"
    /\ LET r == ReadExact(data, pos, 1) IN
       /\ Touch(r)
       /\ IF r.ok
          THEN flags' = r.bytes[1] /\ pos' = r.pos /\ Goto("sign_count")
          ELSE Fail(ErrIo) /\ UNCHANGED <<flags, pos>>
    /\ UNCHANGED <<entry, string, topVars, data, rp_id_hash, sign_count, blkVars, keyVars,
                   calls>>

\* line 58
FromVecSignCount ==
    /\ pc = "sign_count"
    /\ LET r == ReadExact(data, pos, 4) IN
       /\ Touch(r)
       /\ IF r.ok
          THEN sign_count' = U32BigEndian(r.bytes) /\ pos' = r.pos /\ Goto("present")
          ELSE Fail(ErrIo) /\ UNCHANGED <<sign_count, pos>>
    /\ UNCHANGED <<entry, string, topVars, data, rp_id_hash, flags, blkVars, keyVars, calls>>

\* line 60 and 81
FromVecPresent ==
    /\ pc = "present"
    /\ IF AttestedPresent(data, pos)
       THEN Goto("aaguid") /\ UNCHANGED attested_credential_data
       ELSE Goto("from_vec_ok") /\ attested_credential_data' = None
    /\ UNCHANGED <<entry, string, topVars, data, pos, hdrVars, aaguid, length, credential_id,
                   remaining, remaining_value, credential_public_key, keyVars, calls, touched>>

\* line 61..62
FromVecAaguid ==
    /\ pc = "aaguid"
    /\ LET r == ReadExact(data, pos, 16) IN
       /\ Touch(r)
       /\ IF r.ok
          THEN aaguid' = r.bytes /\ pos' = r.pos /\ Goto("length")
          ELSE Fail(ErrIo) /\ UNCHANGED <<aaguid, pos>>
    /\ UNCHANGED <<entry, string, topVars, data, hdrVars, length, credential_id, remaining,
                   remaining_value, credential_public_key, attested_credential_data,
                   keyVars, calls>>

\* line 64
FromVecLength ==
    /\ pc = "length"
    /\ LET r == ReadExact(data, pos, 2) IN
       /\ Touch(r)
       /\ IF r.ok
          THEN length' = U16BigEndian(r.bytes) /\ pos' = r.pos /\ Goto("credential_id")
          ELSE Fail(ErrIo) /\ UNCHANGED <<length, pos>>
    /\ UNCHANGED <<entry, string, topVars, data, hdrVars, aaguid, credential_id, remaining,
                   remaining_value, credential_public_key, attested_credential_data,
                   keyVars, calls>>

\* line 66..67
FromVecCredentialId ==
    /\ pc = "credential_id"
    /\ LET r == ReadExact(data, pos, length) IN
       /\ Touch(r)
       /\ IF r.ok
          THEN credential_id' = r.bytes /\ pos' = r.pos /\ Goto("remaining")
          ELSE Fail(ErrIo) /\ UNCHANGED <<credential_id, pos>>
    /\ UNCHANGED <<entry, string, topVars, data, hdrVars, aaguid, length, remaining,
                   remaining_value, credential_public_key, attested_credential_data,
                   keyVars, calls>>

\* line 69..70
FromVecRemaining ==
    /\ pc = "remaining"
    /\ LET r == ReadExact(data, pos, Remaining(data, pos)) IN
       /\ Touch(r)
       /\ IF r.ok
          THEN remaining' = r.bytes /\ pos' = r.pos /\ Goto("remaining_value")
          ELSE Fail(ErrIo) /\ UNCHANGED <<remaining, pos>>
    /\ UNCHANGED <<entry, string, topVars, data, hdrVars, aaguid, length, credential_id,
                   remaining_value, credential_public_key, attested_credential_data,
                   keyVars, calls>>

\* line 72, and the call of line 74
FromVecRemainingValue ==
    /\ pc = "remaining_value"
    /\ LET r == from_slice_Value(remaining) IN
       IF r.ok
       THEN /\ remaining_value' = r.val
            /\ value' = r.val
            /\ calls' = Append(calls, "from_value")
            /\ Goto("map")
       ELSE /\ IF r.unsup THEN Unsupported ELSE Fail(ErrCbor)
            /\ UNCHANGED <<remaining_value, value, calls>>
    /\ UNCHANGED <<entry, string, topVars, data, pos, hdrVars, aaguid, length, credential_id,
                   remaining, credential_public_key, attested_credential_data,
                   map, key_type, alg, curve, x, coords, touched>>

\* line 76..80
FromVecAttested ==
    /\ pc = "attested"
    /\ attested_credential_data' =
          Some([aaguid |-> aaguid,
                credential_id |-> credential_id,
                credential_public_key |-> credential_public_key])
    /\ Goto("from_vec_ok")
    /\ UNCHANGED <<entry, string, topVars, data, pos, hdrVars, aaguid, length, credential_id,
                   remaining, remaining_value, credential_public_key, keyVars, calls, touched>>

\* line 83..89
AuthenticatorDataOf ==
    [rp_id_hash |-> rp_id_hash,
     flags |-> flags,
     sign_count |-> sign_count,
     attested_credential_data |-> attested_credential_data,
     extensions |-> VNull]

FromVecOk ==
    /\ pc = "from_vec_ok"
    /\ IF entry = "from_vec"
       THEN /\ Finish("ok", NoError,
                      [kind |-> "AuthenticatorData",
                       auth_data |-> AuthenticatorDataOf,
                       raw |-> IntoInner(data, pos)])
            /\ UNCHANGED <<auth_data, raw_auth_data>>
       ELSE /\ auth_data' = AuthenticatorDataOf
            /\ raw_auth_data' = IntoInner(data, pos)
            /\ Goto("from_bytes_ok")
    /\ UNCHANGED <<entry, string, raw_values, raw_object, data, pos, hdrVars, blkVars,
                   keyVars, calls, touched>>

----------------------------------------------------------------------------
(* CredentialPublicKey::from_value.                                        *)

\* line 111..114
FromValueMap ==
    /\ pc = "map"
    /\ map' = IF value.t = "Map" THEN value.m ELSE <<>>
    /\ Goto("key_type")
    /\ UNCHANGED <<entry, string, topVars, data, pos, hdrVars, blkVars,
                   value, key_type, alg, curve, x, coords, calls, touched>>

\* line 116..121
FromValueKeyType ==
    /\ pc = "key_type"
    /\ LET r == IntegerField(map, 1) IN
       IF r.some
       THEN key_type' = r.val /\ Goto("alg")
       ELSE Fail(ErrOther("Key type missing")) /\ UNCHANGED key_type
    /\ UNCHANGED <<entry, string, topVars, data, pos, hdrVars, blkVars,
                   value, map, alg, curve, x, coords, calls, touched>>

\* line 123..128
FromValueAlg ==
    /\ pc = "alg"
    /\ LET r == IntegerField(map, 3) IN
       IF r.some
       THEN alg' = r.val /\ Goto("curve")
       ELSE Fail(ErrOther("algorithm missing")) /\ UNCHANGED alg
    /\ UNCHANGED <<entry, string, topVars, data, pos, hdrVars, blkVars,
                   value, map, key_type, curve, x, coords, calls, touched>>

\* line 130..135
FromValueCurve ==
    /\ pc = "curve"
    /\ LET r == IntegerField(map, -1) IN
       IF r.some
       THEN curve' = r.val /\ Goto("x")
       ELSE Fail(ErrOther("curve missing")) /\ UNCHANGED curve
    /\ UNCHANGED <<entry, string, topVars, data, pos, hdrVars, blkVars,
                   value, map, key_type, alg, x, coords, calls, touched>>

\* line 137..147
FromValueX ==
    /\ pc = "x"
    /\ LET r == XCoordinate(map) IN
       IF r.panic THEN Panic /\ UNCHANGED x
       ELSE IF r.some THEN x' = r.val /\ Goto("coords")
       ELSE Fail(ErrOther("x coordinate missing")) /\ UNCHANGED x
    /\ UNCHANGED <<entry, string, topVars, data, pos, hdrVars, blkVars,
                   value, map, key_type, alg, curve, coords, calls, touched>>

\* line 149..163
FromValueCoords ==
    /\ pc = "coords"
    /\ LET r == YCoordinate(map, x) IN
       IF r.panic THEN Panic /\ UNCHANGED coords
       ELSE IF r.some THEN coords' = r.val /\ Goto("from_value_ok")
       ELSE Fail(ErrOther("y coordinate missing")) /\ UNCHANGED coords
    /\ UNCHANGED <<entry, string, topVars, data, pos, hdrVars, blkVars,
                   value, map, key_type, alg, curve, x, calls, touched>>

\* line 165..170
CredentialPublicKeyOf ==
    [kind |-> "CredentialPublicKey",
     key_type |-> key_type, alg |-> alg, curve |-> curve, coords |-> coords]

FromValueOk ==
    /\ pc = "from_value_ok"
    /\ IF entry = "from_value"
       THEN Finish("ok", NoError, CredentialPublicKeyOf) /\ UNCHANGED credential_public_key
       ELSE credential_public_key' = CredentialPublicKeyOf /\ Goto("attested")
    /\ UNCHANGED <<entry, string, topVars, data, pos, hdrVars, aaguid, length, credential_id,
                   remaining, remaining_value, attested_credential_data, keyVars,
                   calls, touched>>

----------------------------------------------------------------------------

Next ==
    \/ FromBase64
    \/ FromBytesDecode
    \/ FromBytesAuthData
    \/ FromBytesOk
    \/ FromVecRpIdHash
    \/ FromVecFlags
    \/ FromVecSignCount
    \/ FromVecPresent
    \/ FromVecAaguid
    \/ FromVecLength
    \/ FromVecCredentialId
    \/ FromVecRemaining
    \/ FromVecRemainingValue
    \/ FromVecAttested
    \/ FromVecOk
    \/ FromValueMap
    \/ FromValueKeyType
    \/ FromValueAlg
    \/ FromValueCurve
    \/ FromValueX
    \/ FromValueCoords
    \/ FromValueOk

Spec == Init /\ [][Next]_vars

\* every input stays inside the modelled subset of CBOR and base64
Supported == outcome # "unsupported"

----------------------------------------------------------------------------
(* Properties of the decoder.                                              *)

Done == pc = "done"
InFromVec == \E i \in 1..Len(calls) : calls[i] = "from_vec"
Decoder == entry \in {"from_base64", "from_bytes"}

\* the labels from_vec holds once it has entered the attested-credential block
BlockLabels == {"aaguid", "length", "credential_id", "remaining", "remaining_value",
                "map", "key_type", "alg", "curve", "x", "coords", "from_value_ok",
                "attested"}
\* those at which credential_id has been read
AfterCredentialId == BlockLabels \ {"aaguid", "length", "credential_id"}
\* those at which the trailing document has been decoded
AfterDocument == AfterCredentialId \ {"remaining", "remaining_value"}

\* the credentialIdLength the buffer declares at offsets 53..54
Declared == data[54] * 256 + data[55]

\* C1: every call of AttestationObject::from_base64 / from_bytes ends either
\* with a complete AttestationObject or with one returned error and nothing
\* else (no crash, no partial object); an invalid base64 string fails with
\* EncodingError before from_bytes is entered.
C1_TerminalOutcome ==
    (Decoder /\ Done) =>
        /\ outcome \in {"ok", "err"}
        /\ outcome = "ok" => (result.kind = "AttestationObject" /\ error = NoError)
        /\ outcome = "err" => (result = NoResult /\ error # NoError)
        /\ error.variant = "Base64Error" =>
              (ErrorKind(error) = "EncodingError" /\ calls = <<"from_base64">>)

Has(m, k) == BTreeGet(m, IntLit(k)).some
Get(m, k) == BTreeGet(m, IntLit(k)).val
IntegerKeysPresent(m) == Has(m, 1) /\ Has(m, 3) /\ Has(m, -1)
ShortBytes(m, k) == Has(m, k) /\ Get(m, k).t = "Bytes" /\ Len(Get(m, k).v) < 32
LongBytes(m, k) == Has(m, k) /\ Get(m, k).t = "Bytes" /\ Len(Get(m, k).v) >= 32

\* C2: from_value fails with MissingField when key -2 is absent, and with a
\* returned MalformedInput error (never a short read, never a non-error
\* outcome) when key -2 or key -3 holds a byte string shorter than 32 bytes.
C2_ShortCoordinateFails ==
    (entry = "from_value" /\ Done /\ value.t = "Map") =>
        /\ ~Has(value.m, -2) =>
              (outcome = "err" /\ ErrorKind(error) = "MissingField")
        /\ (IntegerKeysPresent(value.m) /\ ShortBytes(value.m, -2)) =>
              (outcome = "err" /\ ErrorKind(error) = "MalformedInput")
        /\ (IntegerKeysPresent(value.m) /\ LongBytes(value.m, -2) /\ ShortBytes(value.m, -3)) =>
              (outcome = "err" /\ ErrorKind(error) = "MalformedInput")

\* C3: on a buffer of 0..36 bytes from_vec fails with Truncation: it returns
\* no AuthenticatorData, never gets past the fixed header and never reads a
\* byte at an index >= the length of the buffer.
C3_ShortInputTruncation ==
    (InFromVec /\ Len(data) < 37) =>
        /\ touched <= Len(data)
        /\ pc \in {"rp_id_hash", "flags", "sign_count", "done"}
        /\ Done => (outcome = "err" /\ ErrorKind(error) = "Truncation" /\ result = NoResult)

C3_Witness ==
    entry = "from_vec" /\ Len(data) = 36 /\ Done /\ outcome = "err" /\ touched = 36

\* C4: when from_vec succeeds its second value is the whole input buffer,
\* whatever the cursor position, and AttestationObject.raw_auth_data is the
\* authData byte string of the envelope unchanged.
C4_RawBytesPreserved ==
    /\ (entry = "from_vec" /\ outcome = "ok") => result.raw = data
    /\ (Decoder /\ outcome = "ok") =>
          (result.raw_auth_data = raw_object.auth_data.v /\ result.raw_auth_data = data)

C4_Witness ==
    entry = "from_vec" /\ outcome = "ok" /\ pos = 37 /\ Len(data) = 53
        /\ result.raw = data

\* C5: inside the attested-credential block credential_id is the Declared
\* bytes at offsets 55.., the key document is decoded from exactly the bytes
\* after them, and a buffer that ends inside the length prefix or inside the
\* credential id fails with Truncation and returns no credential id.
C5_CredentialIdExact ==
    InFromVec =>
        /\ pc \in AfterCredentialId =>
              /\ length = Declared
              /\ Len(credential_id) = length
              /\ credential_id = SubSeq(data, 56, 55 + length)
        /\ pc \in AfterCredentialId \ {"remaining"} =>
              remaining = SubSeq(data, 56 + length, Len(data))
        /\ pc \in AfterDocument =>
              /\ from_slice_Value(SubSeq(data, 56 + Declared, Len(data))).ok
              /\ value = from_slice_Value(SubSeq(data, 56 + Declared, Len(data))).val
        /\ (outcome = "ok" /\ result.auth_data.attested_credential_data.some) =>
              result.auth_data.attested_credential_data.val.credential_id
                  = SubSeq(data, 56, 55 + Declared)
        /\ (Done /\ Len(data) = 54) =>
              (outcome = "err" /\ ErrorKind(error) = "Truncation" /\ result = NoResult)
        /\ (Done /\ Len(data) >= 55 /\ Len(data) - 55 < Declared) =>
              (outcome = "err" /\ ErrorKind(error) = "Truncation" /\ result = NoResult)

C5_Witness ==
    entry = "from_vec" /\ Done /\ Len(data) = 56 /\ Declared = 2
        /\ outcome = "err" /\ ErrorKind(error) = "Truncation"

\* C6: from_vec parses an attested-credential block exactly when the buffer
\* has at least 54 bytes, whatever the flags byte; a buffer of 37..53 bytes
\* parses with attested_credential_data = None, and extensions is Null in
\* every successful parse.
C6_PresenceByByteCount ==
    InFromVec =>
        /\ pc \in BlockLabels => Len(data) >= 54
        /\ pc = "from_vec_ok" => (attested_credential_data.some <=> Len(data) >= 54)
        /\ (Done /\ Len(data) >= 37 /\ Len(data) <= 53) =>
              (outcome = "ok" /\ ~result.auth_data.attested_credential_data.some)
        /\ outcome = "ok" =>
              /\ result.auth_data.extensions = VNull
              /\ result.auth_data.attested_credential_data.some <=> Len(data) >= 54

C6_Witness ==
    entry = "from_vec" /\ Done /\ Len(data) = 53 /\ data[33] = 65
        /\ outcome = "ok" /\ ~result.auth_data.attested_credential_data.some

\* C7: with keys 1, 3, -1 present and at least 32 bytes under -2, key -3
\* alone decides the coordinates: >= 32 bytes give Uncompressed with the
\* first 32 bytes of each string, a boolean gives Compressed with one of two
\* distinct constants, anything else or no key -3 fails with MissingField.
C7_VariantFromY ==
    (entry = "from_value" /\ Done /\ value.t = "Map"
        /\ IntegerKeysPresent(value.m) /\ LongBytes(value.m, -2)) =>
        IF LongBytes(value.m, -3)
        THEN /\ outcome = "ok"
             /\ result.coords = [variant |-> "Uncompressed",
                                 x |-> SubSeq(Get(value.m, -2).v, 1, 32),
                                 y |-> SubSeq(Get(value.m, -3).v, 1, 32)]
        ELSE IF Has(value.m, -3) /\ Get(value.m, -3).t = "Bool"
        THEN /\ outcome = "ok"
             /\ result.coords.variant = "Compressed"
             /\ result.coords.x = SubSeq(Get(value.m, -2).v, 1, 32)
             /\ result.coords.y = (IF Get(value.m, -3).b THEN ECDSA_Y_PREFIX_NEGATIVE
                                   ELSE ECDSA_Y_PREFIX_POSITIVTE)
             /\ ECDSA_Y_PREFIX_NEGATIVE # ECDSA_Y_PREFIX_POSITIVTE
        ELSE outcome = "err" /\ ErrorKind(error) = "MissingField"

\* C8: when the envelope decodes and its authData is not a byte string,
\* from_bytes fails with UnsupportedFormat ("Cannot proceed without auth
\* data") and from_vec is never entered.
C8_NonBytesAuthData ==
    (Decoder /\ raw_object # NoResult /\ raw_object.auth_data.t # "Bytes"
        /\ pc # "auth_data") =>
        /\ Done /\ outcome = "err" /\ result = NoResult
        /\ error = ErrOther("Cannot proceed without auth data")
        /\ ErrorKind(error) = "UnsupportedFormat"
        /\ ~InFromVec /\ touched = 0 /\ data = <<>>

C8_Witness ==
    entry = "from_bytes" /\ Done /\ raw_object # NoResult
        /\ raw_object.auth_data.t = "Map" /\ outcome = "err"

\* C9: when from_vec succeeds, rp_id_hash is bytes 0..31 of the buffer,
\* flags is byte 32 and sign_count is the big-endian value of bytes 33..36,
\* with or without an attested-credential block.
C9_FixedHeaderFields ==
    (InFromVec /\ outcome = "ok") =>
        /\ Len(data) >= 37
        /\ result.auth_data.rp_id_hash = SubSeq(data, 1, 32)
        /\ result.auth_data.flags = data[33]
        /\ result.auth_data.sign_count.hi = data[34] * 256 + data[35]
        /\ result.auth_data.sign_count.lo = data[36] * 256 + data[37]

C9_Witness ==
    entry = "from_vec" /\ outcome = "ok" /\ data[34] = 255
        /\ result.auth_data.attested_credential_data.some

\* what the claim expects a present key to be read as
Expected(v) == IF v.t = "Integer" THEN [neg |-> v.neg, mag |-> v.mag] ELSE I64Zero

\* C10: for each of the keys 1, 3, -1: absent, the extraction fails with
\* MissingField; present with a non-integer, the field is 0 and extraction
\* goes on; present with an integer, the field equals that integer.
C10_IntegerFields ==
    (entry = "from_value" /\ Done /\ value.t = "Map") =>
        /\ ~IntegerKeysPresent(value.m) =>
              (outcome = "err" /\ ErrorKind(error) = "MissingField")
        /\ IntegerKeysPresent(value.m) =>
              /\ error.msg \notin {"Key type missing", "algorithm missing", "curve missing"}
              /\ key_type = Expected(Get(value.m, 1))
              /\ alg = Expected(Get(value.m, 3))
              /\ curve = Expected(Get(value.m, -1))
====
